---- MODULE Spec2Model ----
(***************************************************************************)
(* Model of image-to-ascii (src/src/main.py): main() run as a sequence of  *)
(* stages                                                                   *)
(*   resolve -> font -> glyphs -> tiles -> print ... -> done                *)
(* over the parsed arguments and the decoded image.  Every stage either     *)
(* advances pc or raises: error then holds the exception's name and the     *)
(* run is over.                                                             *)
(*                                                                          *)
(* Floats.  args.tile_width and args.tile_height are Python floats; they    *)
(* are modelled as exact rationals [num, den].  The pairs in RatioPairs     *)
(* are ones on which IEEE double arithmetic and exact arithmetic give the   *)
(* same round(...) and floor(min(...)) for every size within the bounds.    *)
(*                                                                          *)
(* Collaborators.  Image.open yields an image with w >= 1 and h >= 1.       *)
(* ImageFont.truetype either returns a font or raises.  The rasterizer      *)
(* (ImageDraw.text) may draw any glyph: it is a nondeterministic choice of  *)
(* one buffer per character, the same for every occurrence of the           *)
(* character in a run.                                                      *)
(***************************************************************************)
EXTENDS Integers, Sequences, FiniteSets

VARIABLES
    args,         \* the parsed command line (argparse Namespace)
    w, h,         \* img.size
    frame,        \* the luminance grid, a sequence of rows; padded by resolve
    h_tile_count, v_tile_count,
    tile_width, tile_height,
    h_pad, v_pad,
    font_size,
    char_glyphs,  \* one int16 buffer per character of char_set
    tiles,        \* to_tiles(frame, tile_width, tile_height)
    out,          \* the lines printed so far
    pc,           \* the stage about to run
    error,        \* "" or the name of the exception that ended the run
    status        \* the exit status once main has returned

vars == <<args, w, h, frame, h_tile_count, v_tile_count, tile_width,
          tile_height, h_pad, v_pad, font_size, char_glyphs, tiles, out,
          pc, error, status>>

\* ---------------------------------------------------------------- bounds

\* largest image width and height
MaxDim == 3
\* largest requested tile count (the smallest is -1)
MaxCount == 3
\* images and glyphs of at most this many pixels are enumerated exhaustively
MaxFreePixels == 2

\* ------------------------------------------------------------- constants

DEFAULT_FONT_SIZE == 16
DEFAULT_H_TILE_COUNT == 80

\* luminance samples used in images and glyphs (mode "L": 0..255)
PixelVals == {0, 255}

\* an optional argument: <<>> is None, <<x>> is x
None == <<>>
Some(x) == <<x>>
IsNone(o) == o = <<>>
Val(o) == o[1]

Ratio(n, d) == [num |-> n, den |-> d]
\* (args.tile_width, args.tile_height): the defaults 0.6 and 1.5, and 1.0, 1.0
RatioPairs == { <<Ratio(3, 5), Ratio(3, 2)>>, <<Ratio(1, 1), Ratio(1, 1)>> }

CharSets == { <<>>, <<"#">>, <<" ", "#">> }

\* ------------------------------------------------------ Python arithmetic

Abs(x) == IF x < 0 THEN -x ELSE x

\* Python's // and % on ints, b # 0: floor division, remainder with b's sign
PyFloorDiv(a, b) == a \div b
PyMod(a, b) == a - b * (a \div b)

\* C-style truncating division: the remainder takes the dividend's sign
TruncDivmod(a, b) ==
    LET q == (IF (a < 0) = (b < 0) THEN 1 ELSE -1) * (Abs(a) \div Abs(b))
    IN  <<q, a - b * q>>

\* divmod(a, b), b # 0
PyDivmod(a, b) == <<PyFloorDiv(a, b), PyMod(a, b)>>

\* round(n / d), d # 0: to nearest, ties to the even integer
PyRound(n, d) ==
    LET nn == IF d < 0 THEN -n ELSE n
        dd == Abs(d)
        fl == nn \div dd
        r2 == 2 * (nn - fl * dd)
    IN  IF r2 < dd THEN fl
        ELSE IF r2 > dd THEN fl + 1
        ELSE IF fl % 2 = 0 THEN fl ELSE fl + 1

\* ceil(n / d), d > 0
PyCeil(n, d) == -((-n) \div d)

\* floor(min(a / ra, b / rb)) for ints a, b and positive ratios ra, rb
FloorMinQuot(a, ra, b, rb) ==
    IF a * ra.den * rb.num <= b * rb.den * ra.num
    THEN (a * ra.den) \div ra.num
    ELSE (b * rb.den) \div rb.num

\* ------------------------------------------------------------- pad_with

Height(a) == Len(a)
Width(a) == IF Len(a) = 0 THEN 0 ELSE Len(a[1])

Clamp(x, lo, hi) == IF x < lo THEN lo ELSE IF x > hi THEN hi ELSE x

\* np.pad(a, ((top, bottom), (left, right)), "edge"), all four >= 0
NpPadEdge(a, top, bottom, left, right) ==
    [r \in 1..(Height(a) + top + bottom) |->
        [c \in 1..(Width(a) + left + right) |->
            a[Clamp(r - top, 1, Height(a))][Clamp(c - left, 1, Width(a))]]]

\* the split in which the second half repeats the first
PadSplitEven(padding) == <<padding \div 2, padding \div 2>>

\* (left, right) or (top, bottom) of pad_with
PadSplit(padding) ==
    LET first == PyFloorDiv(padding, 2)
    IN  <<first, padding - first>>

\* np.pad raises ValueError on a negative pad width
PadRaises(h_padding, v_padding) ==
    \E x \in {PadSplit(h_padding)[1], PadSplit(h_padding)[2],
              PadSplit(v_padding)[1], PadSplit(v_padding)[2]} : x < 0

pad_with(a, h_padding, v_padding) ==
    NpPadEdge(a, PadSplit(v_padding)[1], PadSplit(v_padding)[2],
                 PadSplit(h_padding)[1], PadSplit(h_padding)[2])

\* ---------------------------------------------------- geometry resolution

HasAttr(ns, name) == name \in DOMAIN ns

\* the sign slip: the negated quotient taken as the tile dimension
TileFromNegSlip(tile_neg) == tile_neg

\* tile_width = -tile_width_neg
TileFromNeg(tile_neg) == -tile_neg

\* round(h_tile_count * h/w * args.tile_width/args.tile_height), w # 0
DerivedVTileCount(a, iw, ih) ==
    PyRound(a.h_tile_count * ih * a.tile_width.num * a.tile_height.den,
            iw * a.tile_width.den * a.tile_height.num)

\* the locals of main after the else branch, or the exception it raised
ResolveCounts(a, iw, ih) ==
    LET hc == a.h_tile_count
        vc == IF IsNone(a.v_tile_count)
              THEN DerivedVTileCount(a, iw, ih)
              ELSE Val(a.v_tile_count)
        fs0 == IF IsNone(a.font_size) THEN 0 ELSE Val(a.font_size)
        unset == [error |-> "", h_tile_count |-> hc, v_tile_count |-> vc,
                  tile_width |-> 0, tile_height |-> 0, h_pad |-> 0,
                  v_pad |-> 0, font_size |-> fs0]
    IN  IF hc = 0
        THEN [unset EXCEPT !.error = "ZeroDivisionError"]
        ELSE
        LET dw == PyDivmod(-iw, hc)
        IN  IF vc = 0
            THEN [unset EXCEPT !.error = "ZeroDivisionError", !.h_pad = dw[2]]
            ELSE
            LET dh == PyDivmod(-ih, vc)
                tw == TileFromNeg(dw[1])
                th == TileFromNeg(dh[1])
                fs == IF IsNone(a.font_size)
                      THEN FloorMinQuot(tw, a.tile_width, th, a.tile_height)
                      ELSE Val(a.font_size)
                res == [unset EXCEPT !.tile_width = tw, !.tile_height = th,
                                     !.h_pad = dw[2], !.v_pad = dh[2],
                                     !.font_size = fs]
            IN  IF PadRaises(dw[2], dh[2])
                THEN [res EXCEPT !.error = "ValueError"]
                ELSE res

\* the locals of main after the if branch, or the exception it raised
ResolveDimensions(a, iw, ih) ==
    LET fs == IF IsNone(a.font_size) THEN DEFAULT_FONT_SIZE
              ELSE Val(a.font_size)
        unset == [error |-> "", h_tile_count |-> 0, v_tile_count |-> 0,
                  tile_width |-> 0, tile_height |-> 0, h_pad |-> 0,
                  v_pad |-> 0, font_size |-> fs]
    IN  IF ~HasAttr(a, "absolute_tile_width")
        THEN [unset EXCEPT !.error = "AttributeError"]
        ELSE
        LET tw == IF a.absolute_tile_width
                  THEN PyCeil(a.tile_width.num, a.tile_width.den)
                  ELSE PyCeil(a.tile_width.num * fs, a.tile_width.den)
        IN  IF ~HasAttr(a, "absolute_tile_height")
            THEN [unset EXCEPT !.error = "AttributeError"]
            ELSE
            LET th == IF a.absolute_tile_height
                      THEN PyCeil(a.tile_height.num, a.tile_height.den)
                      ELSE PyCeil(a.tile_height.num * fs, a.tile_height.den)
                set == [unset EXCEPT !.tile_width = tw, !.tile_height = th]
            IN  IF tw = 0 \/ th = 0
                THEN [set EXCEPT !.error = "ZeroDivisionError"]
                ELSE
                LET res == [set EXCEPT !.h_pad = PyMod(-iw, tw),
                                       !.v_pad = PyMod(-ih, th)]
                IN  IF PadRaises(res.h_pad, res.v_pad)
                    THEN [res EXCEPT !.error = "ValueError"]
                    ELSE res

\* ------------------------------------------------------------ the inputs

\* an image whose samples are all different
Ramp(iw, ih) ==
    [r \in 1..ih |-> [c \in 1..iw |-> (((r - 1) * iw + (c - 1)) * 17) % 256]]

Flat(iw, ih, v) == [r \in 1..ih |-> [c \in 1..iw |-> v]]

\* all buffers of the given shape over PixelVals
Buffers(bw, bh) == [1..bh -> [1..bw -> PixelVals]]

Images(iw, ih) ==
    IF iw * ih <= MaxFreePixels
    THEN Buffers(iw, ih)
    ELSE {Ramp(iw, ih), Flat(iw, ih, 0)}

Counts == -1..MaxCount

\* the Namespace parse_args returns: one field per add_argument dest
Args(d, cs, fs, hc, vc, rp) ==
    [use_tile_dimensions |-> d, char_set |-> cs, font_size |-> fs,
     h_tile_count |-> hc, v_tile_count |-> vc,
     tile_width |-> rp[1], tile_height |-> rp[2]]

ArgsSet ==
    { Args(FALSE, cs, fs, hc, vc, rp) :
        cs \in CharSets, fs \in {None, Some(DEFAULT_FONT_SIZE)},
        hc \in Counts, vc \in {None} \cup {Some(n) : n \in Counts},
        rp \in RatioPairs }
    \cup
    { Args(TRUE, cs, fs, DEFAULT_H_TILE_COUNT, None, rp) :
        cs \in CharSets, fs \in {None, Some(DEFAULT_FONT_SIZE)},
        rp \in RatioPairs }

Init ==
    /\ args \in ArgsSet
    /\ w \in 1..MaxDim
    /\ h \in 1..MaxDim
    /\ frame \in Images(w, h)
    /\ h_tile_count = 0
    /\ v_tile_count = 0
    /\ tile_width = 0
    /\ tile_height = 0
    /\ h_pad = 0
    /\ v_pad = 0
    /\ font_size = 0
    /\ char_glyphs = <<>>
    /\ tiles = <<>>
    /\ out = <<>>
    /\ pc = "resolve"
    /\ error = ""
    /\ status = 0

Running == error = "" /\ pc # "done"

\* main, lines 117-157
Resolve ==
    /\ Running
    /\ pc = "resolve"
    /\ LET res == IF args.use_tile_dimensions
                  THEN ResolveDimensions(args, w, h)
                  ELSE ResolveCounts(args, w, h)
       IN  /\ h_tile_count' = res.h_tile_count
           /\ v_tile_count' = res.v_tile_count
           /\ tile_width' = res.tile_width
           /\ tile_height' = res.tile_height
           /\ h_pad' = res.h_pad
           /\ v_pad' = res.v_pad
           /\ font_size' = res.font_size
           /\ error' = res.error
           /\ IF res.error = ""
              THEN /\ frame' = pad_with(frame, res.h_pad, res.v_pad)
                   /\ pc' = "font"
              ELSE UNCHANGED <<frame, pc>>
    /\ UNCHANGED <<args, w, h, char_glyphs, tiles, out, status>>

\* ImageFont.truetype(args.font, font_size), line 159: the font is returned, or
\* the call raises (ValueError for a size <= 0 where the library rejects
\* it, OSError for a font it cannot open)
LoadFont ==
    /\ Running
    /\ pc = "font"
    /\ \E loaded \in BOOLEAN :
          IF loaded
          THEN pc' = "glyphs" /\ UNCHANGED error
          ELSE /\ error' = IF font_size <= 0 THEN "ValueError" ELSE "OSError"
               /\ UNCHANGED pc
    /\ UNCHANGED <<args, w, h, frame, h_tile_count, v_tile_count, tile_width,
                   tile_height, h_pad, v_pad, font_size, char_glyphs, tiles,
                   out, status>>

\* ---------------------------------------------------------- to_char_glyph

\* a value stored as numpy int16
ToInt16(x) == ((x + 32768) % 65536) - 32768

\* the buffers the rasterizer may return for a tile of the given shape
GlyphBuffers(bw, bh) ==
    IF bw * bh <= MaxFreePixels
    THEN Buffers(bw, bh)
    ELSE {Flat(bw, bh, v) : v \in PixelVals}

CharsOf(cs) == {cs[i] : i \in 1..Len(cs)}

\* Image.new("L", (tile_width, tile_height)) raises on a negative size
ImageNewRaises(bw, bh) == bw < 0 \/ bh < 0

\* main, lines 161-166: char_glyphs, as int16
RenderGlyphs ==
    /\ Running
    /\ pc = "glyphs"
    /\ IF args.char_set # <<>> /\ ImageNewRaises(tile_width, tile_height)
       THEN error' = "ValueError" /\ UNCHANGED <<pc, char_glyphs>>
       ELSE /\ \E raster \in [CharsOf(args.char_set) ->
                                 GlyphBuffers(tile_width, tile_height)] :
                 char_glyphs' =
                     [i \in 1..Len(args.char_set) |->
                         [r \in 1..tile_height |->
                             [c \in 1..tile_width |->
                                 ToInt16(raster[args.char_set[i]][r][c])]]]
            /\ pc' = "tiles"
            /\ UNCHANGED error
    /\ UNCHANGED <<args, w, h, frame, h_tile_count, v_tile_count, tile_width,
                   tile_height, h_pad, v_pad, font_size, tiles, out, status>>

\* --------------------------------------------------------------- to_tiles

\* the frame's samples in C (row-major) order
Flatten(a) ==
    [k \in 1..(Height(a) * Width(a)) |->
        a[((k - 1) \div Width(a)) + 1][((k - 1) % Width(a)) + 1]]

\* flat.reshape(d1, d2, d3, d4)
Reshape4(flat, d1, d2, d3, d4) ==
    [i \in 1..d1 |-> [j \in 1..d2 |-> [k \in 1..d3 |-> [l \in 1..d4 |->
        flat[(((i - 1) * d2 + (j - 1)) * d3 + (k - 1)) * d4 + l]]]]]

\* a.swapaxes(1, 2) of an array of shape (d1, d2, d3, d4)
SwapAxes12(a, d1, d2, d3, d4) ==
    [i \in 1..d1 |-> [k \in 1..d3 |-> [j \in 1..d2 |-> a[i][j][k]]]]

\* "" or the exception to_tiles raises
ToTilesError(a, tw, th) ==
    IF th = 0 \/ tw = 0 THEN "ZeroDivisionError"
    ELSE LET v == PyFloorDiv(Height(a), th)
             hc == PyFloorDiv(Width(a), tw)
         IN  IF \/ v < 0 \/ th < 0 \/ hc < 0 \/ tw < 0
                \/ v * th * hc * tw # Height(a) * Width(a)
             THEN "ValueError"
             ELSE ""

\* the reshape that lists the tile axes first and swaps nothing
ToTilesNoSwap(a, tw, th) ==
    LET v == PyFloorDiv(Height(a), th)
        hc == PyFloorDiv(Width(a), tw)
    IN  Reshape4(Flatten(a), v, hc, th, tw)

to_tiles(a, tw, th) ==
    LET v == PyFloorDiv(Height(a), th)
        hc == PyFloorDiv(Width(a), tw)
    IN  SwapAxes12(Reshape4(Flatten(a), v, th, hc, tw), v, th, hc, tw)

\* main, line 175: the iterable of the for loop
ToTiles ==
    /\ Running
    /\ pc = "tiles"
    /\ error' = ToTilesError(frame, tile_width, tile_height)
    /\ IF ToTilesError(frame, tile_width, tile_height) = ""
       THEN /\ tiles' = to_tiles(frame, tile_width, tile_height)
            /\ pc' = "print"
       ELSE UNCHANGED <<tiles, pc>>
    /\ UNCHANGED <<args, w, h, frame, h_tile_count, v_tile_count, tile_width,
                   tile_height, h_pad, v_pad, font_size, char_glyphs, out,
                   status>>

\* ----------------------------------------------------------- closest_char

\* np.abs(glyph - tile).sum(): int16 differences, summed in int64
Distance(glyph, tile) ==
    LET cells == {<<r, c>> : r \in 1..Len(glyph), c \in 1..Width(glyph)}
        d(rc) == Abs(ToInt16(glyph[rc[1]][rc[2]] - tile[rc[1]][rc[2]]))
        sum[S \in SUBSET cells] ==
            IF S = {} THEN 0
            ELSE LET x == CHOOSE y \in S : TRUE
                 IN  d(x) + sum[S \ {x}]
    IN  sum[cells]

\* the scan that also moves to a later element equal to the minimum
ArgMinLast(d) ==
    LET scan[k \in 1..Len(d)] ==
            IF k = 1 THEN 1
            ELSE IF d[k] <= d[scan[k - 1]] THEN k ELSE scan[k - 1]
    IN  scan[Len(d)]

\* ndarray.argmin() of a non-empty 1-d array (as a 1-based index): a scan
\* that moves only to a strictly smaller element
ArgMin(d) ==
    LET scan[k \in 1..Len(d)] ==
            IF k = 1 THEN 1
            ELSE IF d[k] < d[scan[k - 1]] THEN k ELSE scan[k - 1]
    IN  scan[Len(d)]

\* char_glyphs has shape (0,) for an empty char_set: the subtraction or
\* the sum over axes (1, 2) raises (AxisError is a ValueError)
ClosestCharRaises(tile) == Len(char_glyphs) = 0

closest_char(tile) ==
    args.char_set[ArgMin([g \in 1..Len(char_glyphs) |->
                             Distance(char_glyphs[g], tile)])]

\* main, line 176, once per row of tiles: join the row's characters, then
\* print the line
PrintRow ==
    /\ Running
    /\ pc = "print"
    /\ Len(out) < Len(tiles)
    /\ LET row == tiles[Len(out) + 1]
       IN  IF \E j \in 1..Len(row) : ClosestCharRaises(row[j])
           THEN error' = "ValueError" /\ UNCHANGED out
           ELSE /\ out' = Append(out, [j \in 1..Len(row) |->
                                          closest_char(row[j])])
                /\ UNCHANGED error
    /\ UNCHANGED <<args, w, h, frame, h_tile_count, v_tile_count, tile_width,
                   tile_height, h_pad, v_pad, font_size, char_glyphs, tiles,
                   pc, status>>

\* the exit status of a main that returns 1
ReturnCodeOne == 0 + 1

\* main, line 178: return 0
ReturnCode == 0

\* main, lines 178 and 182: the loop is exhausted, main returns
Return ==
    /\ Running
    /\ pc = "print"
    /\ Len(out) = Len(tiles)
    /\ pc' = "done"
    /\ status' = ReturnCode
    /\ UNCHANGED <<args, w, h, frame, h_tile_count, v_tile_count, tile_width,
                   tile_height, h_pad, v_pad, font_size, char_glyphs, tiles,
                   out, error>>

\* the status Python exits with on an uncaught exception
UncaughtExitStatus == 1

Terminated == error # "" \/ pc = "done"

\* raise SystemExit(main()), line 182
ExitStatus == IF error # "" THEN UncaughtExitStatus ELSE status

Next ==
    \/ Resolve
    \/ LoadFont
    \/ RenderGlyphs
    \/ ToTiles
    \/ PrintRow
    \/ Return

Spec == Init /\ [][Next]_vars

\* ------------------------------------------------------------ properties

CountMode == ~args.use_tile_dimensions

\* geometry resolution has run to its end without raising
Resolved == pc # "resolve"

\* geometry resolution has run, to its end or to an exception
ResolveRan == pc # "resolve" \/ error # ""

\* the tiles have been cut
Tiled == pc \in {"print", "done"}

\* the frame is a rectangle of the given size
HasShape(a, aw, ah) ==
    /\ Len(a) = ah
    /\ \A r \in 1..ah : Len(a[r]) = aw

\* C1: in tile-count mode with both tile counts >= 1, resolution does not
\* fail, tile_width = ceil(w / h_tile_count), tile_height =
\* ceil(h / v_tile_count), and the padded frame is exactly
\* tile_width * h_tile_count wide and tile_height * v_tile_count high, so a
\* multiple of the tile size and no smaller than the image.
C1_PaddedFrameIsTileTimesCount ==
    (CountMode /\ ResolveRan /\ h_tile_count >= 1 /\ v_tile_count >= 1) =>
        /\ Resolved
        /\ tile_width * h_tile_count >= w
        /\ (tile_width - 1) * h_tile_count < w
        /\ tile_height * v_tile_count >= h
        /\ (tile_height - 1) * v_tile_count < h
        /\ HasShape(frame, tile_width * h_tile_count,
                           tile_height * v_tile_count)
        /\ Width(frame) >= w
        /\ Height(frame) >= h
        /\ Width(frame) % tile_width = 0
        /\ Height(frame) % tile_height = 0

C1_Witness ==
    /\ CountMode
    /\ pc = "font"
    /\ h_tile_count >= 2
    /\ tile_width >= 2
    /\ h_pad > 0
    /\ v_pad > 0

\* C2 as stated: in tile-count mode with both tile counts >= 1, h_pad lies
\* in [0, tile_width - 1] and v_pad in [0, tile_height - 1].
C2_PadBelowTileDimension ==
    (CountMode /\ ResolveRan /\ h_tile_count >= 1 /\ v_tile_count >= 1) =>
        /\ h_pad \in 0..(tile_width - 1)
        /\ v_pad \in 0..(tile_height - 1)

\* C2 amended: in tile-count mode with both tile counts >= 1, resolution
\* does not fail, h_pad = tile_width * h_tile_count - w lies in
\* [0, h_tile_count - 1] and v_pad = tile_height * v_tile_count - h lies in
\* [0, v_tile_count - 1].
C2_PadBelowTileCount ==
    (CountMode /\ ResolveRan /\ h_tile_count >= 1 /\ v_tile_count >= 1) =>
        /\ Resolved
        /\ h_pad = tile_width * h_tile_count - w
        /\ v_pad = tile_height * v_tile_count - h
        /\ h_pad \in 0..(h_tile_count - 1)
        /\ v_pad \in 0..(v_tile_count - 1)

C2_Witness ==
    /\ CountMode
    /\ Resolved
    /\ h_tile_count >= 1
    /\ v_tile_count >= 1
    /\ h_pad >= tile_width
    /\ v_pad >= tile_height

\* C3: in tile-count mode, a tile count <= 0 (supplied, or v_tile_count
\* derived by rounding) ends geometry resolution in an InvalidGeometry
\* error; it never divides by the count and never continues with a
\* non-positive tile count or tile dimension.
C3_InvalidGeometry ==
    (CountMode /\ ResolveRan /\ (h_tile_count <= 0 \/ v_tile_count <= 0)) =>
        /\ pc = "resolve"
        /\ error = "InvalidGeometry"

\* the characters printed, over all lines
TotalChars(lines) ==
    LET total[k \in 0..Len(lines)] ==
            IF k = 0 THEN 0 ELSE total[k - 1] + Len(lines[k])
    IN  total[Len(lines)]

\* a 1x1 image in tile-count mode with both tile counts >= 1, v_tile_count
\* supplied or derived by rounding
C4_Case ==
    /\ CountMode
    /\ w = 1
    /\ h = 1
    /\ args.h_tile_count >= 1
    /\ IF IsNone(args.v_tile_count)
       THEN DerivedVTileCount(args, w, h) >= 1
       ELSE Val(args.v_tile_count) >= 1

\* the inputs other than the image and the tile counts are usable: there
\* is a character to match and the font file can be opened
C4_UsableInputs ==
    /\ args.char_set # <<>>
    /\ error # "OSError"

\* C4: a 1x1 image in tile-count mode with any tile counts >= 1 does not
\* fail, and the output is exactly one character in total.
C4_OneCharacter ==
    (C4_Case /\ C4_UsableInputs) =>
        /\ error = ""
        /\ pc = "done" => TotalChars(out) = 1

\* the distances of a tile to the glyphs, in character-set order
Distances(tile) ==
    [g \in 1..Len(char_glyphs) |-> Distance(char_glyphs[g], tile)]

\* k is the first index at which d is minimal
IsFirstMinimum(d, k) ==
    /\ k \in 1..Len(d)
    /\ \A m \in 1..Len(d) : d[k] <= d[m]
    /\ \A m \in 1..(k - 1) : d[m] > d[k]

\* C5: every printed character is the character at the smallest index
\* whose glyph is at minimal sum-of-absolute-differences distance from the
\* tile; of two characters with pixel-identical glyphs the later one is
\* never printed.
C5_FirstMinimumWins ==
    \A i \in 1..Len(out) : \A j \in 1..Len(out[i]) :
        LET d == Distances(tiles[i][j])
        IN  /\ \E k \in 1..Len(d) :
                  /\ IsFirstMinimum(d, k)
                  /\ out[i][j] = args.char_set[k]
            /\ \A a \in 1..Len(d) : \A b \in (a + 1)..Len(d) :
                  (/\ char_glyphs[a] = char_glyphs[b]
                   /\ args.char_set[a] # args.char_set[b])
                      => out[i][j] # args.char_set[b]

C5_Witness ==
    /\ pc = "done"
    /\ Len(char_glyphs) = 2
    /\ char_glyphs[1] = char_glyphs[2]
    /\ tile_width * tile_height = 2
    /\ Len(out) >= 1
    /\ out[1][1] = args.char_set[1]

\* C6: in tile-dimension mode resolution succeeds with font_size 16 when
\* none is supplied, tile_width = ceil(width_spec), tile_height =
\* ceil(height_spec), each spec the raw value or the multiple of
\* font_size, and pads of (-w) mod tile_width and (-h) mod tile_height.
C6_TileDimensionMode ==
    (args.use_tile_dimensions /\ ResolveRan) =>
        /\ Resolved
        /\ font_size = IF IsNone(args.font_size) THEN 16
                       ELSE Val(args.font_size)
        /\ \/ tile_width = PyCeil(args.tile_width.num, args.tile_width.den)
           \/ tile_width = PyCeil(args.tile_width.num * font_size,
                                  args.tile_width.den)
        /\ \/ tile_height = PyCeil(args.tile_height.num, args.tile_height.den)
           \/ tile_height = PyCeil(args.tile_height.num * font_size,
                                   args.tile_height.den)
        /\ h_pad \in 0..(tile_width - 1)
        /\ v_pad \in 0..(tile_height - 1)
        /\ (w + h_pad) % tile_width = 0
        /\ (h + v_pad) % tile_height = 0
        /\ HasShape(frame, w + h_pad, h + v_pad)

\* C7: in tile-count mode with no font_size supplied and tile counts >= 1,
\* the geometry handed on to font loading and glyph rendering has
\* font_size > 0, tile_width > 0 and tile_height > 0.
C7_FontSizePositive ==
    (/\ CountMode
     /\ Resolved
     /\ IsNone(args.font_size)
     /\ h_tile_count >= 1
     /\ v_tile_count >= 1) =>
        /\ font_size > 0
        /\ tile_width > 0
        /\ tile_height > 0

\* C8: a run that ends in failure (an exception, a non-zero exit status)
\* has printed no line.
C8_NoOutputBeforeFailure ==
    (Terminated /\ ExitStatus # 0) => out = <<>>

C8_Witness ==
    /\ pc = "print"
    /\ error = "ValueError"
    /\ Len(tiles) >= 2
    /\ out = <<>>

\* the request with h_tile_count doubled
Doubled(a) == [a EXCEPT !.h_tile_count = 2 * a.h_tile_count]

\* C9: in tile-count mode, when the request with h_tile_count = n >= 1 and
\* the request with 2n both resolve, the second's tile_width and
\* tile_height are no larger than the first's, with v_tile_count supplied
\* or derived.
C9_DoublingNeverGrowsTiles ==
    (/\ CountMode
     /\ Resolved
     /\ args.h_tile_count >= 1
     /\ ResolveCounts(Doubled(args), w, h).error = "") =>
        /\ ResolveCounts(Doubled(args), w, h).tile_width <= tile_width
        /\ ResolveCounts(Doubled(args), w, h).tile_height <= tile_height

C9_Witness ==
    /\ CountMode
    /\ Resolved
    /\ args.h_tile_count >= 1
    /\ IsNone(args.v_tile_count)
    /\ ResolveCounts(Doubled(args), w, h).error = ""
    /\ ResolveCounts(Doubled(args), w, h).tile_width < tile_width
    /\ ResolveCounts(Doubled(args), w, h).tile_height < tile_height

\* the image region of tile row i, tile column j
Region(i, j) ==
    [r \in 1..tile_height |-> [c \in 1..tile_width |->
        frame[(i - 1) * tile_height + r][(j - 1) * tile_width + c]]]

\* C10: to_tiles yields v_tile_count rows of h_tile_count tiles, pixel
\* (r, c) of tile (i, j) being frame[i * tile_height + r][j * tile_width + c];
\* a completed run has printed v_tile_count lines of h_tile_count
\* characters, the character at line i, position j being the match of the
\* region at tile row i, tile column j.
C10_TilesInReadingOrder ==
    Tiled =>
        /\ Len(tiles) = v_tile_count
        /\ Len(tiles) * tile_height = Height(frame)
        /\ \A i \in 1..Len(tiles) :
              /\ Len(tiles[i]) = h_tile_count
              /\ Len(tiles[i]) * tile_width = Width(frame)
              /\ \A j \in 1..Len(tiles[i]) :
                    /\ HasShape(tiles[i][j], tile_width, tile_height)
                    /\ tiles[i][j] = Region(i, j)
        /\ pc = "done" =>
              /\ Len(out) = v_tile_count
              /\ \A i \in 1..Len(out) :
                    /\ Len(out[i]) = h_tile_count
                    /\ \A j \in 1..Len(out[i]) :
                          out[i][j] = closest_char(Region(i, j))

C10_Witness ==
    /\ pc = "done"
    /\ Len(out) >= 2
    /\ Len(out[1]) >= 2
    /\ tile_width >= 2
    /\ tile_height >= 2
    /\ frame[1][1] # frame[1][2]
    /\ frame[1][1] # frame[2][1]
====
